---------------------------- MODULE Spec2Model ----------------------------
(***************************************************************************)
(* Title matching utilities of artwork-uploader-plex                       *)
(* (src/utils/title_matching.py): normalize_title_for_matching,            *)
(* normalize_title_for_comparison and fuzzy_title_match.                   *)
(*                                                                         *)
(* A title is None or a Python str, modelled as a sequence of characters.  *)
(* Characters are one-element strings standing for Unicode classes:        *)
(*   "I"       a cased upper-case letter whose lower() is one letter       *)
(*   "i"       a character lower() leaves alone that is alphanumeric       *)
(*   "1"       a decimal digit (classified below, not drawn as input: it   *)
(*             behaves as "i" does)                                        *)
(*   "U+0130"  LATIN CAPITAL LETTER I WITH DOT ABOVE: alphanumeric, and    *)
(*             str.lower() maps it to the two characters "i" U+0307        *)
(*   "U+0307"  COMBINING DOT ABOVE (category Mn): neither isalnum() nor    *)
(*             isspace()                                                   *)
(*   " "       the ASCII space                                             *)
(*   "\t"      a whitespace character that is not the ASCII space          *)
(*   "-"       punctuation                                                 *)
(***************************************************************************)
EXTENDS Integers, Sequences, FiniteSets, TLC

\* Longest first title drawn.
MaxLen == 4
\* Longest second title drawn (fuzzy_title_match only).
MaxLen2 == 1
\* Number of concurrently running callers.
NThreads == 2

VARIABLES op, title1, title2, pc, result, frames

vars == <<op, title1, title2, pc, result, frames>>

\* Optional[str]: the absent title.  A one-element sequence whose element is
\* no character, so that it differs from every str, the empty one included.
None == <<"None">>

\* The exception iterating over None raises (line 48 applied to None).
TypeError == <<"TypeError">>

\* The characters titles are drawn from.
Alphabet == {"I", "i", "U+0130", " ", "\t", "-"}

\* str.isalnum() of one character.
isalnum(ch) == ch \in {"I", "i", "1", "U+0130"}

\* str.isspace() of one character.
isspace(ch) == ch \in {" ", "\t"}

\* The filter of line 48 keeping ASCII letters and digits only.
KeepCharAsciiOnly(ch) == ch \in {"I", "i", "1"} \/ isspace(ch)

\* The condition of the generator expression at line 48.
KeepChar(ch) == isalnum(ch) \/ isspace(ch)

\* Line 42 testing for the empty string only.
FalsyEmptyOnly(title) == title = <<>>

\* Python truthiness of an Optional[str], negated: `not title`.
Falsy(title) == title = None \/ title = <<>>

\* Line 48 with punctuation turned into a space instead of deleted.
RECURSIVE FilterToSpace(_)
FilterToSpace(title) ==
    IF title = <<>> THEN <<>>
    ELSE <<(IF KeepChar(Head(title)) THEN Head(title) ELSE " ")>>
         \o FilterToSpace(Tail(title))

\* ''.join(ch for ch in title if ch.isalnum() or ch.isspace())
Filter(title) ==
    IF title = None THEN TypeError ELSE SelectSeq(title, KeepChar)

\* str.split() without arguments: the maximal runs of non-whitespace
\* characters, in order.  word is the run being read.
RECURSIVE SplitFrom(_, _, _)
SplitFrom(s, word, words) ==
    IF s = <<>>
    THEN IF word = <<>> THEN words ELSE Append(words, word)
    ELSE IF isspace(Head(s))
         THEN SplitFrom(Tail(s), <<>>,
                        IF word = <<>> THEN words ELSE Append(words, word))
         ELSE SplitFrom(Tail(s), Append(word, Head(s)), words)

split(s) == SplitFrom(s, <<>>, <<>>)

\* sep.join(words)
RECURSIVE join(_, _)
join(sep, words) ==
    IF words = <<>> THEN <<>>
    ELSE IF Len(words) = 1 THEN Head(words)
    ELSE Head(words) \o sep \o join(sep, Tail(words))

\* Line 51 without the split: nothing collapsed, nothing stripped.
CollapseSkipped(normalized) == normalized

\* " ".join(normalized.split())
Collapse(normalized) == join(<<" ">>, split(normalized))

\* str.lower() of one character, as the string it yields.
lower(ch) ==
    CASE ch = "I" -> <<"i">>
      [] ch = "U+0130" -> <<"i", "U+0307">>
      [] OTHER -> <<ch>>

\* str.lower()
RECURSIVE Lower(_)
Lower(s) == IF s = <<>> THEN <<>> ELSE lower(Head(s)) \o Lower(Tail(s))

\* Lines 48 and 51 in the wrong order: collapse first, filter afterwards.
normalize_collapse_first(title) ==
    IF Falsy(title) THEN <<>>
    ELSE Filter(Collapse(title))

\* The matching normalization lower-cased as the comparison one is.
normalize_lowercased(title) ==
    IF Falsy(title) THEN <<>> ELSE Lower(Collapse(Filter(title)))

\* Lines 42-53; the exception of line 48 propagates.
normalize_title_for_matching(title) ==
    IF Falsy(title) THEN <<>>
    ELSE LET normalized == Filter(title)
         IN  IF normalized = TypeError THEN TypeError
             ELSE Collapse(normalized)

\* Lower-casing before the filter instead of after it.
normalize_lower_first(title) ==
    IF title = None THEN <<>> ELSE normalize_title_for_matching(Lower(title))

\* Line 73.
normalize_title_for_comparison(title) ==
    LET normalized == normalize_title_for_matching(title)
    IN  IF normalized = TypeError THEN TypeError ELSE Lower(normalized)

\* The comparison done on the case-preserving normalization.
fuzzy_match_case_sensitive(t1, t2) ==
    normalize_title_for_matching(t1) = normalize_title_for_matching(t2)

\* Line 93.
fuzzy_title_match(t1, t2) ==
    normalize_title_for_comparison(t1) = normalize_title_for_comparison(t2)


-----------------------------------------------------------------------------
(* One call at a time: the caller has chosen the operation and its        *)
(* arguments; the action of the operation runs it to its end.             *)

Ops == {"matching", "comparison", "fuzzy"}

\* Every str of at most n characters.
Text(n) == UNION {[1..k -> Alphabet] : k \in 0..n}

\* Every Optional[str] of at most n characters.
Titles(n) == {None} \cup Text(n)

\* A caller's frame before any call.
IdleFrame ==
    [pc |-> "idle", op |-> "none", title1 |-> None, title2 |-> None,
     title |-> None, side |-> 0, normalized |-> <<>>, left |-> <<>>,
     result |-> <<>>]

Threads == 1..NThreads

Init ==
    /\ op \in Ops
    /\ title1 \in Titles(MaxLen)
    /\ title2 \in (IF op = "fuzzy" THEN Titles(MaxLen2) ELSE {None})
    /\ pc = "call"
    /\ result = <<>>
    /\ frames = [t \in Threads |-> IdleFrame]

\* A call of normalize_title_for_matching(title1).
NormalizeForMatching ==
    /\ pc = "call"
    /\ op = "matching"
    /\ LET r == normalize_title_for_matching(title1)
       IN  /\ result' = r
           /\ pc' = IF r = TypeError THEN "raise" ELSE "return"
    /\ UNCHANGED <<op, title1, title2, frames>>

\* A call of normalize_title_for_comparison(title1).
NormalizeForComparison ==
    /\ pc = "call"
    /\ op = "comparison"
    /\ LET r == normalize_title_for_comparison(title1)
       IN  /\ result' = r
           /\ pc' = IF r = TypeError THEN "raise" ELSE "return"
    /\ UNCHANGED <<op, title1, title2, frames>>

\* A call of fuzzy_title_match(title1, title2): an exception of either
\* operand propagates, otherwise the comparison's value is returned.
FuzzyTitleMatch ==
    /\ pc = "call"
    /\ op = "fuzzy"
    /\ IF TypeError \in {normalize_title_for_comparison(title1),
                         normalize_title_for_comparison(title2)}
       THEN result' = TypeError /\ pc' = "raise"
       ELSE result' = fuzzy_title_match(title1, title2) /\ pc' = "return"
    /\ UNCHANGED <<op, title1, title2, frames>>

Next == NormalizeForMatching \/ NormalizeForComparison \/ FuzzyTitleMatch

Spec == Init /\ [][Next]_vars

-----------------------------------------------------------------------------
(* Concurrent callers: each thread runs its call statement by statement   *)
(* on its own frame; the scheduler may switch threads between any two     *)
(* statements.  pc names the line about to be executed.                   *)

\* The titles the concurrent callers pass; fuzzy_title_match is called on two
\* different ones.
ConcTitles == {None, <<"I", "-", " ", " ", "i">>, <<"\t", "U+0130", "-">>}

ConcCalls ==
    [op : {"matching", "comparison"}, title1 : ConcTitles, title2 : {None}]
    \cup {c \in [op : {"fuzzy"}, title1 : ConcTitles, title2 : ConcTitles] :
             c.title1 # c.title2}

ConcInit ==
    /\ op = "none"
    /\ title1 = None
    /\ title2 = None
    /\ pc = "idle"
    /\ result = <<>>
    /\ frames = [t \in Threads |-> IdleFrame]

\* A thread with no call running calls one of the three functions; each of
\* them starts by entering normalize_title_for_matching on title1.
Invoke(t) ==
    /\ frames[t].pc \in {"idle", "done"}
    /\ \E c \in ConcCalls :
         frames' = [frames EXCEPT ![t] =
                      [pc |-> "L42", op |-> c.op, title1 |-> c.title1,
                       title2 |-> c.title2, title |-> c.title1, side |-> 1,
                       normalized |-> <<>>, left |-> <<>>, result |-> <<>>]]
    /\ UNCHANGED <<op, title1, title2, pc, result>>

\* if not title:
Check42(t) ==
    /\ frames[t].pc = "L42"
    /\ frames' = [frames EXCEPT ![t].pc =
                    IF Falsy(frames[t].title) THEN "L43" ELSE "L48"]
    /\ UNCHANGED <<op, title1, title2, pc, result>>

\* normalized = ''.join(...)
Filter48(t) ==
    /\ frames[t].pc = "L48"
    /\ frames' = [frames EXCEPT ![t].normalized = Filter(frames[t].title),
                                ![t].pc = "L51"]
    /\ UNCHANGED <<op, title1, title2, pc, result>>

\* Line 51 with `normalized` a module-level buffer every caller writes.
Collapse51Shared(t) ==
    /\ frames[t].pc = "L51"
    /\ \E u \in Threads :
         frames' = [frames EXCEPT
                      ![t].normalized = Collapse(frames[u].normalized),
                      ![t].pc = "L53"]
    /\ UNCHANGED <<op, title1, title2, pc, result>>

\* normalized = " ".join(normalized.split())
Collapse51(t) ==
    /\ frames[t].pc = "L51"
    /\ frames' = [frames EXCEPT
                    ![t].normalized = Collapse(frames[t].normalized),
                    ![t].pc = "L53"]
    /\ UNCHANGED <<op, title1, title2, pc, result>>

\* return "" (line 43) or return normalized (line 53): to the caller's
\* result for a direct call, to line 73 otherwise.
Return(t) ==
    /\ frames[t].pc \in {"L43", "L53"}
    /\ LET v == IF frames[t].pc = "L43" THEN <<>> ELSE frames[t].normalized
       IN  frames' = [frames EXCEPT ![t] =
             IF frames[t].op = "matching"
             THEN [@ EXCEPT !.pc = "done", !.result = v,
                            !.title = None, !.normalized = <<>>]
             ELSE [@ EXCEPT !.pc = "L73", !.normalized = v]]
    /\ UNCHANGED <<op, title1, title2, pc, result>>

\* .lower() and return: the result of a direct call, the left operand of
\* line 93 (the right one is evaluated next), or its right operand.
Lower73(t) ==
    /\ frames[t].pc = "L73"
    /\ LET v == Lower(frames[t].normalized)
       IN  frames' = [frames EXCEPT ![t] =
             IF frames[t].op = "comparison"
             THEN [@ EXCEPT !.pc = "done", !.result = v,
                            !.title = None, !.normalized = <<>>]
             ELSE IF frames[t].side = 1
             THEN [@ EXCEPT !.pc = "L42", !.left = v, !.side = 2,
                            !.title = frames[t].title2, !.normalized = <<>>]
             ELSE [@ EXCEPT !.pc = "L93", !.normalized = v]]
    /\ UNCHANGED <<op, title1, title2, pc, result>>

\* return <left> == <right>
Compare93(t) ==
    /\ frames[t].pc = "L93"
    /\ frames' = [frames EXCEPT ![t] =
                    [@ EXCEPT !.pc = "done",
                              !.result = (frames[t].left = frames[t].normalized),
                              !.title = None, !.side = 0,
                              !.normalized = <<>>, !.left = <<>>]]
    /\ UNCHANGED <<op, title1, title2, pc, result>>

ConcNext ==
    \E t \in Threads :
        \/ Invoke(t)
        \/ Check42(t)
        \/ Filter48(t)
        \/ Collapse51(t)
        \/ Return(t)
        \/ Lower73(t)
        \/ Compare93(t)

ConcSpec == ConcInit /\ [][ConcNext]_vars

-----------------------------------------------------------------------------
(* Properties.                                                             *)

\* Number of alphanumeric characters of s.
AlnumCount(s) == Cardinality({i \in 1..Len(s) : isalnum(s[i])})

\* Index in s of its n-th alphanumeric character.
NthAlnum(s, n) ==
    CHOOSE i \in 1..Len(s) :
        /\ isalnum(s[i])
        /\ Cardinality({j \in 1..i : isalnum(s[j])}) = n

\* s has no alphanumeric character.
NoAlnum(s) == \A i \in 1..Len(s) : ~isalnum(s[i])

Returned(o) == pc = "return" /\ op = o

\* C1: whatever title normalize_title_for_matching is given, what it returns
\* holds only alphanumeric characters and ASCII spaces, never two spaces in a
\* row, and no space at its start or its end.
C1_OutputShape ==
    Returned("matching") =>
        /\ \A i \in 1..Len(result) : isalnum(result[i]) \/ result[i] = " "
        /\ \A i \in 1..(Len(result) - 1) :
               ~(result[i] = " " /\ result[i + 1] = " ")
        /\ result # <<>> => result[1] # " " /\ result[Len(result)] # " "

\* A title with a tab next to a space between two letters was normalized.
C1_Witness ==
    /\ Returned("matching")
    /\ title1 = <<"I", " ", "\t", "i">>
    /\ result = <<"I", " ", "i">>

\* C2 as stated: an absent title and a present non-empty title, in either
\* order, never match.
C2_AbsentNeverMatchesNonEmpty ==
    Returned("fuzzy") =>
        /\ (title1 = None /\ title2 \notin {None, <<>>}) => result = FALSE
        /\ (title2 = None /\ title1 \notin {None, <<>>}) => result = FALSE

\* C2 amended: an absent title and a present title holding at least one
\* alphanumeric character, in either order, never match.
C2_AbsentNeverMatchesAlnum ==
    Returned("fuzzy") =>
        /\ (title1 = None /\ title2 # None /\ ~NoAlnum(title2))
               => result = FALSE
        /\ (title2 = None /\ title1 # None /\ ~NoAlnum(title1))
               => result = FALSE

\* A title of punctuation around U+0130 was compared with the absent title.
C2_Witness ==
    /\ Returned("fuzzy")
    /\ title1 = <<"-", "U+0130", " ">>
    /\ title2 = None
    /\ result = FALSE

\* C3: fuzzy_title_match returns true exactly when the two titles'
\* normalize_title_for_comparison results are the same string; two absent
\* titles match.
C3_MatchIffEqualComparison ==
    Returned("fuzzy") =>
        /\ result = (normalize_title_for_comparison(title1)
                       = normalize_title_for_comparison(title2))
        /\ (title1 = None /\ title2 = None) => result = TRUE

\* Two different present titles matched.
C3_Witness ==
    /\ Returned("fuzzy")
    /\ title1 = <<"-", "I", "\t">>
    /\ title2 = <<"i">>
    /\ result = TRUE

\* C4: normalize_title_for_matching puts no space where it deletes a
\* character: two alphanumeric characters with nothing alphanumeric between
\* them come out adjacent when no whitespace stood between them, and with
\* exactly one ASCII space between them when some whitespace did.
C4_DeletionInsertsNoSpace ==
    (Returned("matching") /\ title1 # None) =>
        /\ AlnumCount(result) = AlnumCount(title1)
        /\ \A k \in 1..(AlnumCount(title1) - 1) :
             LET i == NthAlnum(title1, k)
                 j == NthAlnum(title1, k + 1)
                 p == NthAlnum(result, k)
                 q == NthAlnum(result, k + 1)
             IN  IF \E m \in (i + 1)..(j - 1) : isspace(title1[m])
                 THEN q = p + 2 /\ result[p + 1] = " "
                 ELSE q = p + 1

\* A title with punctuation and a tab between two letters was normalized.
C4_Witness ==
    /\ Returned("matching")
    /\ title1 = <<"I", "-", "\t", "i">>
    /\ result = <<"I", " ", "i">>

\* C5: normalizing the result of normalize_title_for_matching again gives
\* that result back.
C5_MatchingIdempotent ==
    Returned("matching") => normalize_title_for_matching(result) = result

\* A title the normalization changed was normalized.
C5_Witness ==
    /\ Returned("matching")
    /\ title1 = <<" ", "-", " ", "I">>
    /\ result = <<"I">>

\* C6: normalize_title_for_comparison returns the lower-cased result of
\* normalize_title_for_matching on the same title.
C6_ComparisonIsLoweredMatching ==
    Returned("comparison") =>
        result = Lower(normalize_title_for_matching(title1))

\* A title holding U+0130 and punctuation was normalized for comparison.
C6_Witness ==
    /\ Returned("comparison")
    /\ title1 = <<"U+0130", "-", "I">>
    /\ result = <<"i", "U+0307", "i">>

\* C7: no call raises; the two normalizations return the empty string for
\* the absent title, the empty one and every title without an alphanumeric
\* character, and fuzzy_title_match returns a boolean.
C7_TotalAndEmpty ==
    /\ pc # "raise"
    /\ (pc = "return" /\ op \in {"matching", "comparison"}
          /\ (title1 = None \/ NoAlnum(title1)))
         => result = <<>>
    /\ Returned("fuzzy") => result \in BOOLEAN

\* The absent title was normalized for comparison.
C7_Witness ==
    /\ Returned("comparison")
    /\ title1 = None
    /\ result = <<>>

\* What a call returns when it runs alone.
Alone(f) ==
    CASE f.op = "matching" -> normalize_title_for_matching(f.title1)
      [] f.op = "comparison" -> normalize_title_for_comparison(f.title1)
      [] f.op = "fuzzy" -> fuzzy_title_match(f.title1, f.title2)

\* C8: however the callers' statements interleave and whatever was called
\* before, a finished call has returned what it returns when run alone on
\* the same arguments.
C8_NoHiddenState ==
    \A t \in Threads :
        frames[t].pc = "done" => frames[t].result = Alone(frames[t])

\* One caller has finished while another one, called on a different title,
\* is between its filter and its collapse.
C8_Witness ==
    \E t, u \in Threads :
        /\ frames[t].pc = "done"
        /\ frames[u].pc = "L51"
        /\ frames[u].title1 # frames[t].title1

\* C9: the alphanumeric characters of what normalize_title_for_matching
\* returns are those of its input, in the same order and the same case.
C9_AlnumKept ==
    (Returned("matching") /\ title1 # None) =>
        SelectSeq(result, isalnum) = SelectSeq(title1, isalnum)

\* A title holding an upper-case letter, U+0130 and punctuation was
\* normalized.
C9_Witness ==
    /\ Returned("matching")
    /\ title1 = <<"I", "-", "U+0130", "i">>
    /\ result = <<"I", "U+0130", "i">>

\* C10: normalizing the result of normalize_title_for_comparison again gives
\* that result back, and every title matches its own result.
C10_ComparisonIdempotent ==
    Returned("comparison") =>
        /\ normalize_title_for_comparison(result) = result
        /\ fuzzy_title_match(title1, result)

=============================================================================
